---- MODULE Spec2Model ----
(***************************************************************************)
(* A model of greenelab/netscape's compression pipeline:                   *)
(*   src/data_models.py       the DataModel container                      *)
(*   src/1.compress_given_z.py the ensemble driver                         *)
(*   src/config.py            default_seed                                 *)
(*                                                                         *)
(* Matrices, fitted transforms and embeddings are symbolic terms that      *)
(* record what they were computed from: sklearn, numpy and the PLIER R     *)
(* script are external, so a fit is the term "fit of method m on matrix X" *)
(* and a projection is the term "fit f applied to matrix Y".  Two terms    *)
(* are equal exactly when they were computed the same way from the same    *)
(* inputs.                                                                 *)
(***************************************************************************)
EXTENDS Integers, Sequences, FiniteSets, TLC

(***************************************************************************)
(* Bounds of the model.                                                    *)
(***************************************************************************)
\* transform() may be called at most this many times on one DataModel
MaxNorm == 1
\* a session of plier calls makes at most this many calls
MaxCalls == 2
\* the driver's --num_seeds ranges over 0..MaxSeeds
MaxSeeds == 2
\* np.arange(0, 1000000) is scaled down to 0..PopSize-1
PopSize == 2

(***************************************************************************)
(* Program constants.                                                      *)
(***************************************************************************)
default_seed == 42

\* the gene identifiers that may label a column
GeneUniverse == {"g1", "g2"}
GeneSets == (SUBSET GeneUniverse) \ {{}}

\* Python values
Unset   == [set |-> FALSE]                       \* hasattr(self, x) is False
NoneVal == [set |-> TRUE, isNone |-> TRUE]       \* the attribute holds None
NoSeed  == -1

(***************************************************************************)
(* Matrices.  name: which raw data set; genes: the column labels; shuf:    *)
(* the numpy seed under which shuffle_train_genes permuted it (NoSeed: not *)
(* permuted); norm: the scalers applied, in order; sign: "nonneg" when     *)
(* every entry is >= 0, otherwise "mixed".                                 *)
(***************************************************************************)
Matrix(name, genes, sign) ==
    [set |-> TRUE, name |-> name, genes |-> genes, shuf |-> NoSeed,
     norm |-> << >>, sign |-> sign]

IsMatrix(m) == m.set /\ m # NoneVal

\* StandardScaler().fit(X) / MinMaxScaler().fit(X)
ScalerFit(how, X) == [set |-> TRUE, how |-> how, on |-> X]

\* fit.transform(X): z-scored data has entries of both signs (every feature
\* is taken to vary), min-max scaled data lies in [0, 1]
ScalerTransform(fit, X) ==
    [X EXCEPT !.norm = Append(@, fit),
              !.sign = IF fit.how = "zscore" THEN "mixed" ELSE "nonneg"]

list_algorithms == <<"pca", "ica", "nmf", "plier">>
Algorithms == {list_algorithms[i] : i \in 1..Len(list_algorithms)}

\* the attributes <alg>_fit, <alg>_df, <alg>_weights, <alg>_test_df
NoModel == [fit |-> Unset, df |-> Unset, weights |-> Unset, test_df |-> Unset]

\* no DataModel object exists
NoDM == [set |-> FALSE]

(***************************************************************************)
(* DataModel.__init__.  df is the training matrix (preloaded or read from  *)
(* filename), test_file the matrix stored at test_filename (NoneVal when   *)
(* test_filename is None), test_df the preloaded test matrix or NoneVal.   *)
(* The result is the object, or the exception that construction raised.    *)
(***************************************************************************)
DataModel(df, select_columns, test_file, test_df) ==
    IF select_columns
    THEN \* line 51 reads self.test_df before line 62 assigns it
         [exc |-> "AttributeError", dm |-> NoDM]
    ELSE LET loaded == test_file # NoneVal /\ test_df = NoneVal
             tdf    == IF loaded THEN test_file ELSE test_df
         IN  IF loaded /\ Cardinality(df.genes) # Cardinality(test_file.genes)
             THEN [exc |-> "AssertionError", dm |-> NoDM]
             ELSE [exc |-> "ok",
                   dm  |-> [set |-> TRUE,
                            df |-> df,
                            num_genes |-> Cardinality(df.genes),
                            test_df |-> tdf,
                            transformation |-> "unset",
                            transform_fit |-> Unset,
                            transform_test_fit |-> Unset,
                            pca |-> NoModel, ica |-> NoModel,
                            nmf |-> NoModel, plier |-> NoModel]]

(***************************************************************************)
(* DataModel.transform(how).                                               *)
(***************************************************************************)
transform(d, how) ==
    LET d1 == [d EXCEPT !.transformation = how]
    IN  IF how \notin {"zscore", "zeroone"}
        THEN [exc |-> "ValueError", dm |-> d1]
        ELSE LET fit == ScalerFit(how, d.df)
                 d2  == [d1 EXCEPT !.transform_fit = fit,
                                   !.df = ScalerTransform(fit, d.df)]
             IN  IF d.test_df # NoneVal
                 THEN LET tfit == ScalerFit(how, d.test_df)
                      IN  [exc |-> "ok",
                           dm  |-> [d2 EXCEPT
                                      !.transform_test_fit = tfit,
                                      !.test_df = ScalerTransform(tfit, d.test_df)]]
                 ELSE [exc |-> "ok", dm |-> d2]

(***************************************************************************)
(* sklearn estimators.  An estimator is created unfitted (on = Unset) and  *)
(* fit_transform(X) fits it on X.                                          *)
(***************************************************************************)
Estimator(alg, k, seed) ==
    [set |-> TRUE, alg |-> alg, k |-> k, seed |-> seed, on |-> Unset]

Fitted(est, X) == [est EXCEPT !.on = X]

\* k must not exceed the number of features (the matrices have at least as
\* many samples as genes)
ValidRank(k, X) == k <= Cardinality(X.genes)

\* est.transform(Y): the forward map of a fitted estimator applied to Y;
\* frame tells whether the result was wrapped in a DataFrame with the
\* <alg>_<i> column names
Embedding(est, Y, frame) ==
    [set |-> TRUE, fit |-> est, of |-> Y, frame |-> frame]

\* est.components_ labelled with the training columns
Weights(est, X) == [set |-> TRUE, fit |-> est, columns |-> X.genes]

\* est.transform(Y) raises when Y is None, when Y has another number of
\* features than the matrix est was fitted on, and, for NMF, when Y has a
\* negative entry
CanTransform(est, Y) ==
    /\ Y # NoneVal
    /\ Cardinality(Y.genes) = Cardinality(est.on.genes)
    /\ est.alg = "nmf" => Y.sign = "nonneg"

(***************************************************************************)
(* DataModel.pca                                                           *)
(***************************************************************************)
\* a pca that would fit the estimator again on the test matrix before
\* embedding it (not what the code does; kept for comparison)
pcaRefitOnTest(d, n_components, transform_df, transform_test_df) ==
    LET est == Estimator("pca", n_components, NoSeed)
    IN  IF ~ValidRank(n_components, d.df)
        THEN [exc |-> "ValueError", dm |-> [d EXCEPT !.pca.fit = est]]
        ELSE LET fit == Fitted(est, d.df)
                 d1  == [d EXCEPT !.pca.fit = fit,
                                  !.pca.df = Embedding(fit, d.df, TRUE),
                                  !.pca.weights = Weights(fit, d.df)]
             IN  IF transform_df THEN [exc |-> "ok", dm |-> d1]
                 ELSE IF ~transform_test_df THEN [exc |-> "ok", dm |-> d1]
                 ELSE IF ~CanTransform(fit, d.test_df)
                 THEN [exc |-> "ValueError", dm |-> d1]
                 ELSE LET refit == Fitted(est, d.test_df)
                      IN  [exc |-> "ok",
                           dm  |-> [d1 EXCEPT !.pca.fit = refit,
                                      !.pca.test_df =
                                          Embedding(refit, d.test_df, FALSE)]]

pca(d, n_components, transform_df, transform_test_df) ==
    LET est == Estimator("pca", n_components, NoSeed)         \* line 103
    IN  IF ~ValidRank(n_components, d.df)
        THEN \* fit_transform raises; self.pca_fit is already assigned
             [exc |-> "ValueError", dm |-> [d EXCEPT !.pca.fit = est]]
        ELSE LET fit == Fitted(est, d.df)                     \* line 104
                 d1  == [d EXCEPT !.pca.fit = fit,
                                  !.pca.df = Embedding(fit, d.df, TRUE),
                                  !.pca.weights = Weights(fit, d.df)]
             IN  IF transform_df THEN [exc |-> "ok", dm |-> d1]
                 ELSE IF ~transform_test_df THEN [exc |-> "ok", dm |-> d1]
                 ELSE IF ~CanTransform(fit, d.test_df)
                 THEN [exc |-> "ValueError", dm |-> d1]
                 ELSE [exc |-> "ok",
                       dm  |-> [d1 EXCEPT !.pca.test_df =
                                   Embedding(fit, d.test_df, FALSE)]]

(***************************************************************************)
(* DataModel.ica.  FastICA lowers n_components to the number of features   *)
(* when it is larger, so fit_transform returns and line 123 assigns ica_df *)
(* (an array with fewer columns); the DataFrame constructor of line 125    *)
(* then rejects the n_components column names.                             *)
(***************************************************************************)
ica(d, n_components, transform_df, transform_test_df, seed) ==
    LET est == Estimator("ica", n_components, seed)           \* line 121
        fit == Fitted(est, d.df)                              \* line 123
    IN  IF ~ValidRank(n_components, d.df)
        THEN [exc |-> "ValueError",
              dm  |-> [d EXCEPT !.ica.fit = fit,
                                !.ica.df = Embedding(fit, d.df, FALSE)]]
        ELSE LET d1 == [d EXCEPT !.ica.fit = fit,
                                 !.ica.df = Embedding(fit, d.df, TRUE),
                                 !.ica.weights = Weights(fit, d.df)]
             IN  IF transform_df THEN [exc |-> "ok", dm |-> d1]
                 ELSE IF ~transform_test_df THEN [exc |-> "ok", dm |-> d1]
                 ELSE IF ~CanTransform(fit, d.test_df)
                 THEN [exc |-> "ValueError", dm |-> d1]
                 ELSE [exc |-> "ok",
                       dm  |-> [d1 EXCEPT !.ica.test_df =
                                   Embedding(fit, d.test_df, FALSE)]]

(***************************************************************************)
(* DataModel.nmf.  NMF rejects a matrix with a negative entry, and the     *)
(* 'nndsvdar' initialisation rejects a rank above the number of features.  *)
(***************************************************************************)
nmf(d, n_components, transform_df, transform_test_df, seed) ==
    LET est == Estimator("nmf", n_components, seed)           \* line 140
    IN  IF d.df.sign # "nonneg" \/ ~ValidRank(n_components, d.df)
        THEN [exc |-> "ValueError", dm |-> [d EXCEPT !.nmf.fit = est]]
        ELSE LET fit == Fitted(est, d.df)                     \* line 142
                 d1  == [d EXCEPT !.nmf.fit = fit,
                                  !.nmf.df = Embedding(fit, d.df, TRUE),
                                  !.nmf.weights = Weights(fit, d.df)]
             IN  IF transform_df THEN [exc |-> "ok", dm |-> d1]
                 ELSE IF ~transform_test_df THEN [exc |-> "ok", dm |-> d1]
                 ELSE IF ~CanTransform(fit, d.test_df)
                 THEN [exc |-> "ValueError", dm |-> d1]
                 ELSE [exc |-> "ok",
                       dm  |-> [d1 EXCEPT !.nmf.test_df =
                                   Embedding(fit, d.test_df, FALSE)]]

(***************************************************************************)
(* The file system: whether data/plier_output exists, the PLIER output     *)
(* files by cache key <<k, seed, shuffled>>, and the temporary expression  *)
(* files left on disk (each known by the matrix written to it).            *)
(***************************************************************************)
Kinds == {"z", "b", "l2"}
NoFiles == [z |-> Unset, b |-> Unset, l2 |-> Unset]
EmptyFS == [dir |-> FALSE, cache |-> << >>, tmp |-> {}]

\* the three output files of a key (NoFiles: none of them exists)
Files(fsys, key) ==
    IF key \in DOMAIN fsys.cache THEN fsys.cache[key] ELSE NoFiles

\* the directory with the files of key replaced by files
PutFiles(fsys, key, files) ==
    LET keys == IF files = NoFiles THEN DOMAIN fsys.cache \ {key}
                ELSE DOMAIN fsys.cache \cup {key}
    IN  [fsys EXCEPT !.cache =
            [x \in keys |-> IF x = key THEN files ELSE fsys.cache[x]]]

\* the gene sets a pathways file may name; "g0" is in no expression matrix
PathwaySets == {{"g1"}}

(***************************************************************************)
(* scripts/run_plier.R, run as a subprocess.  It reads the expression      *)
(* file, and writes <prefix>_z.tsv (genes x k, over the genes that are     *)
(* also in the pathways file), <prefix>_b.tsv and <prefix>_l2.tsv.  Its    *)
(* outputs are a function of its arguments.  outcome.ok tells whether it   *)
(* exits with status 0; a run that fails has written none of the files,    *)
(* the two matrices, or all three (outcome.wrote) before it stopped.       *)
(***************************************************************************)
PlierOutput(kind, data, k, seed, pathways) ==
    [set |-> TRUE, kind |-> kind, data |-> data, k |-> k, seed |-> seed,
     pathways |-> pathways, genes |-> data.genes \cap pathways]

Outcomes == {[ok |-> TRUE, wrote |-> Kinds]}
              \cup {[ok |-> FALSE, wrote |-> w] :
                        w \in {{}, {"z", "b"}, Kinds}}

run_plier(files, data, k, seed, pathways, outcome) ==
    [kind \in Kinds |->
        IF kind \in outcome.wrote
        THEN PlierOutput(kind, data, k, seed, pathways)
        ELSE files[kind]]

(***************************************************************************)
(* DataModel._plier_on_test_data: ridge regression of the z-scored X on    *)
(* the weights with penalty lambda_2.                                      *)
(***************************************************************************)
Restrict(M, columns) == [M EXCEPT !.genes = columns]

plier_on_test_data(X, weights, lambda_2) ==
    [set |-> TRUE,
     X |-> ScalerTransform(ScalerFit("zscore", X), X),
     weights |-> weights, lambda_2 |-> lambda_2]

(***************************************************************************)
(* DataModel.plier.  The result holds the exception raised ("ok": none),   *)
(* the object and the file system after the call, whether the subprocess   *)
(* was invoked, the output files found at entry (before) and the three     *)
(* files read at lines 216-218 (read; NoFiles when they were not read).    *)
(***************************************************************************)
\* a cache test that would always call the subprocess (for comparison)
UseCacheIgnored(files, skip_cache) == FALSE

UseCache(files, skip_cache) ==
    ~(skip_cache \/ (~files.z.set \/ ~files.b.set))           \* line 176

\* a handling of the subprocess error that would reset the plier
\* attributes (for comparison)
AfterProcessErrorCleared(d) == [d EXCEPT !.plier = NoModel]

\* check_call raises at line 201 and the exception leaves plier: the
\* assignments of lines 216-240 are not reached
AfterProcessError(d) == d

plier(d, fsys, n_components, pathways_file, transform_df, transform_test_df, shuffled, seed, skip_cache, outcome) ==
    LET key    == <<n_components, seed, shuffled>>            \* lines 168-174
        fs0    == [fsys EXCEPT !.dir = TRUE]                  \* lines 166-167
        before == Files(fs0, key)
        invoke == ~UseCache(before, skip_cache)
        after  == IF invoke
                  THEN run_plier(before, d.df, n_components, seed,
                                 pathways_file, outcome)
                  ELSE before
        fs1    == PutFiles(fs0, key, after)
        res(e, dd, ff, y) ==
            [exc |-> e, dm |-> dd, fs |-> ff, invoked |-> invoke,
             before |-> before, read |-> y]
    IN  IF invoke /\ ~outcome.ok
        THEN \* check_call raises: line 203 is not reached
             res("CalledProcessError", AfterProcessError(d),
                 [fs1 EXCEPT !.tmp = @ \cup {d.df}], NoFiles)
        ELSE LET d1 == [d EXCEPT
                         !.plier.df = [set |-> TRUE, from |-> after.b,
                                       frame |-> TRUE],
                         !.plier.weights = [set |-> TRUE, from |-> after.z,
                                            columns |-> after.z.genes]]
             IN  IF ~after.l2.set
                 THEN res("OSError", d1, fs1, NoFiles)        \* line 218
                 ELSE
                 LET fs2 == IF skip_cache                     \* lines 220-228
                            THEN PutFiles(fs1, key, NoFiles)
                            ELSE fs1
                     columns == d1.plier.weights.columns
                 IN  IF d.test_df = NoneVal
                     THEN res("TypeError", d1, fs2, after)    \* line 233
                     ELSE IF ~(columns \subseteq d.test_df.genes)
                     THEN res("KeyError", d1, fs2, after)     \* line 233
                     ELSE IF transform_df THEN res("ok", d1, fs2, after)
                     ELSE IF ~transform_test_df THEN res("ok", d1, fs2, after)
                     ELSE IF columns = {}
                     THEN res("ValueError", d1, fs2, after)   \* line 387
                     ELSE res("ok",
                              [d1 EXCEPT !.plier.test_df =
                                 plier_on_test_data(
                                     Restrict(d.test_df, columns),
                                     d1.plier.weights, after.l2)],
                              fs2, after)

(***************************************************************************)
(* DataModel.write_models and DataModel.write_weight_matrices.  files is   *)
(* the set of files of the output directory, each [alg, suffix]; the       *)
(* result holds the exception raised and the files after the call (the     *)
(* files of the algorithms before the failing one are written).            *)
(***************************************************************************)
RECURSIVE write_models_from(_, _, _, _, _)
write_models_from(i, d, files, file_suffix, test_set) ==
    IF i > Len(list_algorithms) THEN [exc |-> "ok", files |-> files]
    ELSE LET alg == list_algorithms[i]
             m   == d[alg]
         IN  IF ~m.df.set                                     \* hasattr
             THEN write_models_from(i + 1, d, files, file_suffix, test_set)
             ELSE IF ~m.test_df.set
             THEN \* the argument self.<alg>_test_df is read in both modes
                  [exc |-> "AttributeError", files |-> files]
             ELSE IF ~m.df.frame
             THEN \* an ndarray has neither .columns nor .to_csv
                  [exc |-> "AttributeError", files |-> files]
             ELSE write_models_from(
                      i + 1, d,
                      files \cup {[alg |-> alg, suffix |-> file_suffix]},
                      file_suffix, test_set)

write_models(d, files, file_suffix, test_set) ==
    write_models_from(1, d, files, file_suffix, test_set)

RECURSIVE write_weights_from(_, _, _, _)
write_weights_from(i, d, files, file_suffix) ==
    IF i > Len(list_algorithms) THEN [exc |-> "ok", files |-> files]
    ELSE LET alg == list_algorithms[i]
             m   == d[alg]
         IN  IF ~m.df.set
             THEN write_weights_from(i + 1, d, files, file_suffix)
             ELSE IF ~m.weights.set
             THEN [exc |-> "AttributeError", files |-> files]
             ELSE write_weights_from(
                      i + 1, d,
                      files \cup {[alg |-> alg, suffix |-> file_suffix]},
                      file_suffix)

write_weight_matrices(d, files, file_suffix) ==
    write_weights_from(1, d, files, file_suffix)

(***************************************************************************)
(* DataModel._approx_keras_binary_cross_entropy(x, z, p): the score of     *)
(* reconstruction x against original z over p features.  numpy broadcasts  *)
(* -x * z when the column counts agree or one of them is 1.                *)
(***************************************************************************)
Broadcasts(a, b) == a = b \/ a = 1 \/ b = 1

approx_keras_binary_cross_entropy(x, z, p) ==
    [x |-> x, z |-> z, p |-> p]

(***************************************************************************)
(* add_method_reconstruction of compile_reconstruction: one cell of the    *)
(* result, or the exception raised.  input_df is the variable of the       *)
(* enclosing function.                                                     *)
(***************************************************************************)
add_method_reconstruction(d, input_df, test_set, method_df, method_test_df, method_name, method_object, num_genes, is_plier) ==
    LET emb   == IF test_set THEN method_test_df ELSE method_df
        width == IF is_plier THEN Cardinality(d.plier.weights.columns)
                 ELSE IF method_object.on.set
                 THEN Cardinality(method_object.on.genes)
                 ELSE 0
        method_reconstruct ==
            [from |-> emb, width |-> width,
             by |-> IF is_plier THEN "dot" ELSE "inverse_transform"]
    IN  IF ~is_plier /\ ~method_object.on.set
        THEN \* inverse_transform of an estimator whose fit raised
             [exc |-> "NotFittedError"]                       \* line 322
        ELSE IF ~Broadcasts(width, Cardinality(input_df.genes))
        THEN [exc |-> "ValueError"]                           \* line 435
        ELSE IF width # Cardinality(input_df.genes)
        THEN [exc |-> "ValueError"]                           \* line 326
        ELSE [exc |-> "ok",
              cell |-> [alg |-> method_name,
                        score |-> approx_keras_binary_cross_entropy(
                                      method_reconstruct, input_df, num_genes)]]

(***************************************************************************)
(* DataModel.compile_reconstruction(test_set): the one-row table with a    *)
(* score column per fitted algorithm (cells), or the exception raised.     *)
(***************************************************************************)
RECURSIVE compile_from(_, _, _, _)
compile_from(i, d, test_set, cells) ==
    IF i > Len(list_algorithms) THEN [exc |-> "ok", cells |-> cells]
    ELSE LET alg      == list_algorithms[i]
             m        == d[alg]
             input_df == IF test_set THEN d.test_df ELSE d.df \* lines 305-308
             is_plier == alg = "plier"
         IN  IF ~m.df.set
             THEN compile_from(i + 1, d, test_set, cells)
             ELSE IF is_plier /\ input_df = NoneVal
             THEN [exc |-> "TypeError", cells |-> {}]         \* line 345
             ELSE IF is_plier
                     /\ ~(d.plier.weights.columns \subseteq input_df.genes)
             THEN [exc |-> "KeyError", cells |-> {}]          \* line 345
             ELSE IF ~m.test_df.set \/ ~m.fit.set
             THEN \* an argument reads an attribute that is not set;
                  \* nothing assigns self.plier_fit
                  [exc |-> "AttributeError", cells |-> {}]
             ELSE LET num_genes ==
                          IF is_plier
                          THEN Cardinality(d.plier.weights.columns)
                          ELSE d.num_genes
                      r == add_method_reconstruction(
                               d, input_df, test_set, m.df, m.test_df, alg,
                               m.fit, num_genes, is_plier)
                  IN  IF r.exc # "ok"
                      THEN [exc |-> r.exc, cells |-> {}]
                      ELSE compile_from(i + 1, d, test_set,
                                        cells \cup {r.cell})

compile_reconstruction(d, test_set) == compile_from(1, d, test_set, {})

(***************************************************************************)
(* State.                                                                  *)
(*   dm        the DataModel object (NoDM: none)                           *)
(*   fs        the plier_output directory and the temporary files          *)
(*   outfiles  the files written by write_models / write_weight_matrices   *)
(*             (in the driver: by the current run)                         *)
(*   last      the last call made: its name, arguments and exception       *)
(*   calls     by cache key, the last plier call made with that key        *)
(*   ncalls    the number of plier calls made                              *)
(*   drv       the driver script's variables and position                  *)
(*   conc      plier calls made by concurrent processes: the plier_output  *)
(*             directory, the file names in it, each process's position    *)
(***************************************************************************)
VARIABLES dm, fs, outfiles, last, calls, ncalls, drv, conc

vars == <<dm, fs, outfiles, last, calls, ncalls, drv, conc>>

NoCall == [set |-> FALSE]

\* the raw data sets: expression values are non-negative
TrainSets == {Matrix("train", {"g1", "g2"}, "nonneg")}
TestSets  == {Matrix("test", g, "nonneg") :
                 g \in {{"g1", "g2"}, {"g1"}, {"g1", "g0"}}}
Hows == {"zscore", "zeroone", "log"}
\* '{seed_name}_z_matrix.tsv.gz' and the like
SeedName(seed, shuffle) == [seed |-> seed, shuffled |-> shuffle]
Suffix(seed_name, kind) == [seed_name |-> seed_name, kind |-> kind]

(***************************************************************************)
(* numpy's global random generator.  Its state is the seed it was last     *)
(* seeded with and the number of values drawn since; a process starts with *)
(* a state taken from the operating system's entropy (a negative seed      *)
(* here).  mt is the generator's output function, the same in every run:   *)
(* mt[<<s, i>>] is the i-th value of np.random.choice(np.arange(PopSize))  *)
(* after np.random.seed(s).  Sampling is with replacement, so any value    *)
(* may follow any other; the function is filled in as values are drawn.    *)
(***************************************************************************)
EntropySeeds == {-2, -3}
Population == 0..(PopSize - 1)

\* a reseeding that would leave the generator as it was (for comparison)
np_random_seed_skipped(rng, seed) == rng

\* np.random.seed(seed)
np_random_seed(rng, seed) == [seed |-> seed, pos |-> 0]

\* the draws np.random.choice(..., size=n) may return in state rng, given
\* the values mt already fixes
Choices(mt, rng, n) ==
    {c \in [1..n -> Population] :
        \A i \in 1..n :
            <<rng.seed, rng.pos + i>> \in DOMAIN mt
                => c[i] = mt[<<rng.seed, rng.pos + i>>]}

Drawn(mt, rng, c) ==
    LET new == {<<rng.seed, rng.pos + i>> : i \in 1..Len(c)}
    IN  [x \in DOMAIN mt \cup new |->
            IF x \in DOMAIN mt THEN mt[x] ELSE c[x[2] - rng.pos]]

(***************************************************************************)
(* The driver script, 1.compress_given_z.py.                               *)
(*   pc      "start" (not running), "init", "loop", "pca", "ica", "nmf",   *)
(*           "plier", "write", "compile", "aggregate", "done", "crashed"   *)
(*   exc, at the uncaught exception that ended the run ("ok": none) and    *)
(*           the step that raised it                                       *)
(*   recon_file  the table this run wrote (Unset: not written)             *)
(*   rerun   this run follows the first run of the script                  *)
(*   mt      the generator's output function                               *)
(*   seen    the first run, remembered to compare later runs with: its     *)
(*           seed count, shuffle flag and random_seeds                     *)
(***************************************************************************)
NoArgs == [algorithm |-> "None", num_components |-> 0, num_seeds |-> 0,
           shuffle |-> FALSE]

NoRun == [pc |-> "start", args |-> NoArgs, algs_to_run |-> {},
          rnaseq_train_df |-> NoneVal, rnaseq_test_df |-> NoneVal,
          rng |-> [seed |-> -2, pos |-> 0],
          random_seeds |-> << >>, ix |-> 0, seed |-> NoSeed,
          reconstruction_results |-> << >>,
          test_reconstruction_results |-> << >>,
          recon_file |-> Unset, exc |-> "ok", at |-> "none",
          rerun |-> FALSE, mt |-> << >>, seen |-> Unset]

\* an exception that would be swallowed, the script going on with the
\* next step (for comparison)
RaiseAndContinue(v, exc, next) ==
    [v EXCEPT !.pc = next, !.exc = exc, !.at = v.pc]

\* an uncaught exception ends the script
Raise(v, exc, next) == [v EXCEPT !.pc = "crashed", !.exc = exc, !.at = v.pc]

\* the step after a call that returned or raised exc
After(v, exc, next) ==
    IF exc = "ok" THEN [v EXCEPT !.pc = next] ELSE Raise(v, exc, next)


(***************************************************************************)
(* The file names of DataModel.plier (lines 164-174), as the characters    *)
(* str.format and += produce.                                              *)
(***************************************************************************)
DigitChar == <<"0", "1", "2", "3", "4", "5", "6", "7", "8", "9">>

\* str(n) for n >= 0
RECURSIVE Digits(_)
Digits(n) ==
    IF n < 10 THEN <<DigitChar[n + 1]>>
    ELSE Digits(n \div 10) \o <<DigitChar[(n % 10) + 1]>>

\* 'plier_k{}_s{}'.format(n_components, seed), then '_shuffled'
output_prefix(n_components, seed, shuffled) ==
    <<"p", "l", "i", "e", "r", "_", "k">> \o Digits(n_components)
        \o <<"_", "s">> \o Digits(seed)
        \o (IF shuffled
            THEN <<"_", "s", "h", "u", "f", "f", "l", "e", "d">>
            ELSE << >>)

KindSuffix(kind) ==
    CASE kind = "z"  -> <<"_", "z", ".", "t", "s", "v">>
      [] kind = "b"  -> <<"_", "b", ".", "t", "s", "v">>
      [] kind = "l2" -> <<"_", "l", "2", ".", "t", "s", "v">>

\* output_data, output_weights, output_l2
OutputFile(key, kind) ==
    output_prefix(key[1], key[2], key[3]) \o KindSuffix(kind)

\* the processes that call plier at the same time, and the keys they use
Procs == {1, 2}
ConcKeys == {1, 11} \X {1, 11} \X BOOLEAN

NoProc == [pc |-> "idle", key |-> <<1, 1, FALSE>>, skip_cache |-> FALSE,
           touched |-> {}, exc |-> "ok"]
NoConc == [dir |-> FALSE, disk |-> {}, proc |-> [p \in Procs |-> NoProc]]

Init ==
    /\ dm = NoDM
    /\ fs = EmptyFS
    /\ outfiles = {}
    /\ last = [op |-> "none", exc |-> "ok"]
    /\ calls = << >>
    /\ ncalls = 0
    /\ drv = NoRun
    /\ conc = NoConc

\* write_models, write_weight_matrices and compile_reconstruction leave the
\* object as it is: a session is explored up to the first of them, and they
\* are then tried in every order
Observed ==
    last.op \in {"write_models", "write_weight_matrices",
                 "compile_reconstruction"}

\* dm = DataModel(df=..., test_filename=... / test_df=...)
Construct ==
    /\ ~dm.set
    /\ \E df \in TrainSets, select_columns \in BOOLEAN,
          test_file \in TestSets \cup {NoneVal},
          test_df \in TestSets \cup {NoneVal} :
        LET r == DataModel(df, select_columns, test_file, test_df)
        IN  /\ dm' = r.dm
            /\ last' = [op |-> "DataModel", exc |-> r.exc, df |-> df,
                        test |-> IF test_df # NoneVal THEN test_df
                                 ELSE test_file]
            /\ UNCHANGED <<fs, outfiles, calls, ncalls, drv, conc>>

\* dm.transform(how)
Transform ==
    /\ dm.set
    /\ Len(dm.df.norm) < MaxNorm
    /\ ~Observed
    /\ \A alg \in Algorithms : dm[alg] = NoModel
    /\ \E how \in Hows :
        LET r == transform(dm, how)
        IN  /\ dm' = r.dm
            /\ last' = [op |-> "transform", exc |-> r.exc, how |-> how]
            /\ UNCHANGED <<fs, outfiles, calls, ncalls, drv, conc>>

FitCall(op, r, transform_df, transform_test_df) ==
    /\ ~Observed
    /\ dm' = r.dm
    /\ last' = [op |-> op, exc |-> r.exc, transform_df |-> transform_df,
                transform_test_df |-> transform_test_df]
    /\ UNCHANGED <<fs, outfiles, calls, ncalls, drv, conc>>

\* dm.pca(k, transform_df, transform_test_df)
Pca ==
    /\ dm.set
    /\ \E k \in {1, 3}, tdf \in BOOLEAN, ttdf \in BOOLEAN :
        FitCall("pca", pca(dm, k, tdf, ttdf), tdf, ttdf)

\* dm.ica(k, transform_df, transform_test_df, seed)
Ica ==
    /\ dm.set
    /\ \E k \in {1, 3}, tdf \in BOOLEAN, ttdf \in BOOLEAN, seed \in {1} :
        FitCall("ica", ica(dm, k, tdf, ttdf, seed), tdf, ttdf)

\* dm.nmf(k, transform_df, transform_test_df, seed)
Nmf ==
    /\ dm.set
    /\ \E k \in {1, 3}, tdf \in BOOLEAN, ttdf \in BOOLEAN, seed \in {1} :
        FitCall("nmf", nmf(dm, k, tdf, ttdf, seed), tdf, ttdf)

\* dm.write_models(output_dir, file_suffix, test_set)
WriteModels ==
    /\ dm.set
    /\ \E test_set \in BOOLEAN :
        LET r == write_models(dm, {},
                     Suffix(SeedName(1, FALSE),
                            IF test_set THEN "z_test" ELSE "z"), test_set)
        IN  /\ outfiles' = r.files
            /\ last' = [op |-> "write_models", exc |-> r.exc,
                        test_set |-> test_set]
            /\ UNCHANGED <<dm, fs, calls, ncalls, drv, conc>>

\* dm.write_weight_matrices(output_dir, file_suffix)
WriteWeights ==
    /\ dm.set
    /\ LET r == write_weight_matrices(dm, {}, Suffix(SeedName(1, FALSE), "weight"))
       IN  /\ outfiles' = r.files
           /\ last' = [op |-> "write_weight_matrices", exc |-> r.exc]
           /\ UNCHANGED <<dm, fs, calls, ncalls, drv, conc>>

\* dm.compile_reconstruction(test_set)
Compile ==
    /\ dm.set
    /\ \E test_set \in BOOLEAN :
        LET r == compile_reconstruction(dm, test_set)
        IN  /\ last' = [op |-> "compile_reconstruction", exc |-> r.exc,
                        test_set |-> test_set, cells |-> r.cells]
            /\ UNCHANGED <<dm, fs, outfiles, calls, ncalls, drv, conc>>

Next ==
    \/ Construct
    \/ Transform
    \/ Pca
    \/ Ica
    \/ Nmf
    \/ WriteModels
    \/ WriteWeights
    \/ Compile

Spec == Init /\ [][Next]_vars

(***************************************************************************)
(* Sessions of plier calls: DataModel objects over the training data (as   *)
(* loaded, or permuted by shuffle_train_genes) are created, plier is       *)
(* called with any arguments, and the scores are compiled.  The files of   *)
(* data/plier_output outlive the objects.                                  *)
(***************************************************************************)
Shuffle(M, seed) == [M EXCEPT !.shuf = seed]

PlierTrainSets == TrainSets \cup {Shuffle(M, 1) : M \in TrainSets}
PlierTestSets  == {Matrix("test", {"g1", "g2"}, "nonneg"), NoneVal}

\* dm = DataModel(df=..., test_df=...)
NewModel ==
    \E df \in PlierTrainSets, test_df \in PlierTestSets :
        LET r == DataModel(df, FALSE, NoneVal, test_df)
        IN  /\ dm' = r.dm
            /\ last' = [op |-> "DataModel", exc |-> r.exc, df |-> df,
                        test |-> test_df]
            /\ UNCHANGED <<fs, outfiles, calls, ncalls, drv, conc>>

\* dm.plier(k, pathways_file, transform_df, transform_test_df, shuffled,
\*          seed, skip_cache), with the subprocess ending as outcome
Plier ==
    /\ dm.set
    /\ ncalls < MaxCalls
    /\ \E pathways_file \in PathwaySets, tdf \in BOOLEAN, ttdf \in BOOLEAN,
          shuffled \in BOOLEAN, skip_cache \in BOOLEAN, outcome \in Outcomes :
        LET key == <<1, 1, shuffled>>
            r   == plier(dm, fs, 1, pathways_file, tdf, ttdf, shuffled, 1,
                         skip_cache, outcome)
            call == [set |-> TRUE, exc |-> r.exc, skip_cache |-> skip_cache,
                     data |-> dm.df, invoked |-> r.invoked, read |-> r.read]
        IN  /\ dm' = r.dm
            /\ fs' = r.fs
            /\ last' = [op |-> "plier", exc |-> r.exc, key |-> key,
                        skip_cache |-> skip_cache, transform_df |-> tdf,
                        transform_test_df |-> ttdf, data |-> dm.df,
                        invoked |-> r.invoked, before |-> r.before,
                        read |-> r.read, tmp |-> fs.tmp,
                        exit_ok |-> ~r.invoked \/ outcome.ok,
                        prev |-> IF key \in DOMAIN calls THEN calls[key]
                                 ELSE NoCall]
            /\ calls' = [x \in DOMAIN calls \cup {key} |->
                            IF x = key THEN call ELSE calls[x]]
            /\ ncalls' = ncalls + 1
            /\ UNCHANGED <<outfiles, drv, conc>>

PlierNext ==
    \/ NewModel
    \/ Plier
    \/ Compile

PlierSpec == Init /\ [][PlierNext]_vars

(***************************************************************************)
(* The steps of the driver script.                                         *)
(***************************************************************************)
DriverTrainSets == TrainSets
DriverTestSets  == {Matrix("test", {"g1", "g2"}, "nonneg")}

\* shuffle_train_genes(train_df): the permutation is drawn from numpy's
\* generator, so it is determined by the generator's state
shuffle_train_genes(train_df, rng) == Shuffle(train_df, rng.seed)

\* python 1.compress_given_z.py -a .. -k .. -n .. [-s]   (lines 29-56);
\* the script may be run again once a run has ended, each run in a new
\* process and with an empty models_dir
StartRun ==
    /\ drv.pc \in {"start", "done", "crashed"}
    /\ \E algorithm \in Algorithms \cup {"None"}, k \in {1, 3},
          n \in 0..MaxSeeds, shuffle \in BOOLEAN, entropy \in EntropySeeds :
        drv' = [NoRun EXCEPT
                  !.pc = "init",
                  !.args = [algorithm |-> algorithm, num_components |-> k,
                            num_seeds |-> n, shuffle |-> shuffle],
                  !.algs_to_run = IF algorithm # "None" THEN {algorithm}
                                  ELSE Algorithms,
                  !.rng = [seed |-> entropy, pos |-> 0],
                  !.rerun = drv.seen.set,
                  !.mt = drv.mt,
                  !.seen = drv.seen]
    /\ dm' = NoDM
    /\ outfiles' = {}
    /\ fs' = EmptyFS
    /\ UNCHANGED <<last, calls, ncalls, conc>>

\* lines 58-91: load the data, create and normalise the DataModel, draw
\* the seeds
InitStep ==
    /\ drv.pc = "init"
    /\ \E train \in DriverTrainSets, test \in DriverTestSets :
        LET r    == DataModel(train, FALSE, NoneVal, test)    \* line 63
            t    == transform(r.dm, "zscore")                 \* line 66
            rng1 == np_random_seed(drv.rng, default_seed)     \* line 82
            n    == drv.args.num_seeds
        IN  \E c \in Choices(drv.mt, rng1, n) :               \* line 83
                /\ dm' = t.dm
                /\ drv' = [drv EXCEPT
                     !.pc = "loop",
                     !.rnaseq_train_df = train,
                     !.rnaseq_test_df = test,
                     !.rng = [rng1 EXCEPT !.pos = @ + n],
                     !.random_seeds = [i \in 1..n |-> c[i]],
                     !.ix = 1,
                     !.mt = Drawn(drv.mt, rng1, c),
                     !.seen = IF ~drv.seen.set
                              THEN [set |-> TRUE, num_seeds |-> n,
                                    shuffle |-> drv.args.shuffle,
                                    random_seeds |-> [i \in 1..n |-> c[i]]]
                              ELSE @]
    /\ UNCHANGED <<fs, outfiles, last, calls, ncalls, conc>>

\* a loop that would end after its first iteration (for comparison)
LoopHeadEndsEarly ==
    /\ drv.pc = "loop"
    /\ IF drv.ix > 1 \/ drv.ix > Len(drv.random_seeds)
       THEN /\ drv' = [drv EXCEPT !.pc = "aggregate"]
            /\ dm' = dm
       ELSE LET seed == drv.random_seeds[drv.ix]
                rng1 == np_random_seed(drv.rng, seed)
                d    == DataModel(
                            shuffle_train_genes(drv.rnaseq_train_df, rng1),
                            FALSE, NoneVal, drv.rnaseq_test_df)
                t    == transform(d.dm, "zscore")
            IN  /\ drv' = [drv EXCEPT !.pc = "pca", !.seed = seed,
                                      !.rng = rng1]
                /\ dm' = IF drv.args.shuffle THEN t.dm ELSE dm
    /\ UNCHANGED <<fs, outfiles, last, calls, ncalls, conc>>

\* lines 93-101: the next seed, and with --shuffle a new DataModel over
\* the permuted training data; the loop ends after the last seed
LoopHead ==
    /\ drv.pc = "loop"
    /\ IF drv.ix > Len(drv.random_seeds)
       THEN /\ drv' = [drv EXCEPT !.pc = "aggregate"]
            /\ dm' = dm
       ELSE LET seed == drv.random_seeds[drv.ix]
                rng1 == np_random_seed(drv.rng, seed)         \* line 94
                d    == DataModel(
                            shuffle_train_genes(drv.rnaseq_train_df, rng1),
                            FALSE, NoneVal, drv.rnaseq_test_df)
                t    == transform(d.dm, "zscore")
            IN  /\ drv' = [drv EXCEPT !.pc = "pca", !.seed = seed,
                                      !.rng = rng1]
                /\ dm' = IF drv.args.shuffle THEN t.dm ELSE dm
    /\ UNCHANGED <<fs, outfiles, last, calls, ncalls, conc>>

\* lines 103-107
FitPca ==
    /\ drv.pc = "pca"
    /\ LET r == pca(dm, drv.args.num_components, FALSE, TRUE)
       IN  IF "pca" \in drv.algs_to_run
           THEN dm' = r.dm /\ drv' = After(drv, r.exc, "ica")
           ELSE dm' = dm /\ drv' = [drv EXCEPT !.pc = "ica"]
    /\ UNCHANGED <<fs, outfiles, last, calls, ncalls, conc>>

\* lines 108-113
FitIca ==
    /\ drv.pc = "ica"
    /\ LET r == ica(dm, drv.args.num_components, FALSE, TRUE, drv.seed)
       IN  IF "ica" \in drv.algs_to_run
           THEN dm' = r.dm /\ drv' = After(drv, r.exc, "nmf")
           ELSE dm' = dm /\ drv' = [drv EXCEPT !.pc = "nmf"]
    /\ UNCHANGED <<fs, outfiles, last, calls, ncalls, conc>>

\* lines 114-119
FitNmf ==
    /\ drv.pc = "nmf"
    /\ LET r == nmf(dm, drv.args.num_components, FALSE, TRUE, drv.seed)
       IN  IF "nmf" \in drv.algs_to_run
           THEN dm' = r.dm /\ drv' = After(drv, r.exc, "plier")
           ELSE dm' = dm /\ drv' = [drv EXCEPT !.pc = "plier"]
    /\ UNCHANGED <<fs, outfiles, last, calls, ncalls, conc>>

\* lines 120-128
FitPlier ==
    /\ drv.pc = "plier"
    /\ IF "plier" \in drv.algs_to_run
       THEN \E pathways_file \in PathwaySets, outcome \in Outcomes :
               LET r == plier(dm, fs, drv.args.num_components, pathways_file,
                              FALSE, TRUE, drv.args.shuffle, drv.seed, FALSE,
                              outcome)
               IN  /\ dm' = r.dm
                   /\ fs' = r.fs
                   /\ drv' = After(drv, r.exc, "write")
       ELSE /\ drv' = [drv EXCEPT !.pc = "write"]
            /\ UNCHANGED <<dm, fs>>
    /\ UNCHANGED <<outfiles, last, calls, ncalls, conc>>

\* lines 131-140: the embeddings of both splits and the weights
Persist ==
    /\ drv.pc = "write"
    /\ LET seed_name == SeedName(drv.seed, drv.args.shuffle)
           w1 == write_models(dm, outfiles, Suffix(seed_name, "z"), FALSE)
           w2 == write_models(dm, w1.files, Suffix(seed_name, "z_test"), TRUE)
           w3 == write_weight_matrices(dm, w2.files,
                                       Suffix(seed_name, "weight"))
       IN  IF w1.exc # "ok"
           THEN outfiles' = w1.files /\ drv' = Raise(drv, w1.exc, "compile")
           ELSE IF w2.exc # "ok"
           THEN outfiles' = w2.files /\ drv' = Raise(drv, w2.exc, "compile")
           ELSE outfiles' = w3.files /\ drv' = After(drv, w3.exc, "compile")
    /\ UNCHANGED <<dm, fs, last, calls, ncalls, conc>>

\* full_reconstruction.assign(seed=seed, shuffled=args.shuffle)
ResultRow(cells, seed, shuffle) ==
    [cells |-> cells, seed |-> seed, shuffled |-> shuffle]

\* lines 143-154: the scores of both splits, appended to the two lists
Score ==
    /\ drv.pc = "compile"
    /\ LET c1 == compile_reconstruction(dm, FALSE)
           c2 == compile_reconstruction(dm, TRUE)
       IN  IF c1.exc # "ok" THEN drv' = Raise(drv, c1.exc, "loop")
           ELSE IF c2.exc # "ok" THEN drv' = Raise(drv, c2.exc, "loop")
           ELSE drv' = [drv EXCEPT
                  !.pc = "loop",
                  !.ix = @ + 1,
                  !.reconstruction_results =
                      Append(@, ResultRow(c1.cells, drv.seed,
                                          drv.args.shuffle)),
                  !.test_reconstruction_results =
                      Append(@, ResultRow(c2.cells, drv.seed,
                                          drv.args.shuffle))]
    /\ UNCHANGED <<dm, fs, outfiles, last, calls, ncalls, conc>>

\* pd.concat(rows).assign(data_type=...)
Tagged(rows, data_type) ==
    [i \in 1..Len(rows) |->
        [cells |-> rows[i].cells, seed |-> rows[i].seed,
         shuffled |-> rows[i].shuffled, data_type |-> data_type]]

\* lines 157-160: pd.concat of an empty list raises ValueError
Aggregate ==
    /\ drv.pc = "aggregate"
    /\ IF drv.reconstruction_results = << >>
       THEN drv' = Raise(drv, "ValueError", "done")
       ELSE drv' = [drv EXCEPT
              !.pc = "done",
              !.recon_file =
                  [set |-> TRUE,
                   rows |-> Tagged(drv.reconstruction_results, "training")
                            \o Tagged(drv.test_reconstruction_results,
                                      "testing")]]
    /\ UNCHANGED <<dm, fs, outfiles, last, calls, ncalls, conc>>

DriverNext ==
    \/ StartRun
    \/ InitStep
    \/ LoopHead
    \/ FitPca
    \/ FitIca
    \/ FitNmf
    \/ FitPlier
    \/ Persist
    \/ Score
    \/ Aggregate

DriverSpec == Init /\ [][DriverNext]_vars

\* the statements of one run of the script
RunStep ==
    \/ InitStep
    \/ LoopHead
    \/ FitPca
    \/ FitIca
    \/ FitNmf
    \/ FitPlier
    \/ Persist
    \/ Score
    \/ Aggregate

\* the interpreter executes the next statement of a running script: every
\* call the script makes returns or raises
DriverLiveSpec == DriverSpec /\ WF_vars(RunStep)

(***************************************************************************)
(* DataModel.plier called by processes that run at the same time over one  *)
(* plier_output directory.  Each file system call is a step of its own;    *)
(* the steps of the processes interleave.                                  *)
(***************************************************************************)
Step(p, rec) == conc' = [conc EXCEPT !.proc[p] = rec]

Fail(p, exc) ==
    [conc.proc[p] EXCEPT !.pc = "failed", !.exc = exc]

\* dm.plier(n_components, ..., shuffled, seed, skip_cache)      line 158
PStart(p) ==
    /\ conc.proc[p].pc = "idle"
    /\ \E key \in ConcKeys, skip_cache \in BOOLEAN :
          Step(p, [NoProc EXCEPT !.pc = "exists", !.key = key,
                                 !.skip_cache = skip_cache])
    /\ UNCHANGED <<dm, fs, outfiles, last, calls, ncalls, drv>>

\* if not os.path.exists(plier_output_dir):                     line 165
PDirExists(p) ==
    /\ conc.proc[p].pc = "exists"
    /\ Step(p, [conc.proc[p] EXCEPT
                  !.pc = IF conc.dir THEN "check" ELSE "makedirs"])
    /\ UNCHANGED <<dm, fs, outfiles, last, calls, ncalls, drv>>

\* os.makedirs(plier_output_dir): raises when the directory exists (166)
PMakedirs(p) ==
    /\ conc.proc[p].pc = "makedirs"
    /\ IF conc.dir
       THEN Step(p, Fail(p, "FileExistsError"))
       ELSE conc' = [conc EXCEPT !.dir = TRUE, !.proc[p].pc = "check"]
    /\ UNCHANGED <<dm, fs, outfiles, last, calls, ncalls, drv>>

\* if skip_cache or (not exists(output_data) or not exists(output_weights))
\* (lines 176-177): the tests are evaluated left to right, as far as needed
PCacheCheck(p) ==
    /\ conc.proc[p].pc = "check"
    /\ LET me     == conc.proc[p]
           z      == OutputFile(me.key, "z")
           b      == OutputFile(me.key, "b")
           tested == IF me.skip_cache THEN {}
                     ELSE IF z \notin conc.disk THEN {z}
                     ELSE {z, b}
           files  == [z |-> [set |-> z \in conc.disk],
                      b |-> [set |-> b \in conc.disk]]
       IN  Step(p, [me EXCEPT
                      !.touched = @ \cup tested,
                      !.pc = IF UseCache(files, me.skip_cache) THEN "read"
                             ELSE "run"])
    /\ UNCHANGED <<dm, fs, outfiles, last, calls, ncalls, drv>>

\* subprocess.check_call(args): the script writes files under
\* output_prefix and exits                                  (lines 185-203)
PRun(p) ==
    /\ conc.proc[p].pc = "run"
    /\ \E outcome \in Outcomes :
          LET me    == conc.proc[p]
              wrote == {OutputFile(me.key, kind) : kind \in outcome.wrote}
          IN  conc' = [conc EXCEPT
                 !.disk = @ \cup wrote,
                 !.proc[p] = IF outcome.ok
                             THEN [me EXCEPT !.pc = "read",
                                             !.touched = @ \cup wrote]
                             ELSE [Fail(p, "CalledProcessError") EXCEPT
                                             !.touched = @ \cup wrote]]
    /\ UNCHANGED <<dm, fs, outfiles, last, calls, ncalls, drv>>

\* pd.read_csv(output_weights), pd.read_csv(output_data),
\* np.loadtxt(output_l2)                                    (lines 216-218)
PRead(p) ==
    /\ conc.proc[p].pc = "read"
    /\ LET me    == conc.proc[p]
           names == {OutputFile(me.key, kind) : kind \in Kinds}
       IN  IF names \subseteq conc.disk
           THEN Step(p, [me EXCEPT
                           !.touched = @ \cup names,
                           !.pc = IF me.skip_cache THEN "cleanup"
                                  ELSE "done"])
           ELSE Step(p, [Fail(p, "OSError") EXCEPT
                           !.touched = @ \cup names])
    /\ UNCHANGED <<dm, fs, outfiles, last, calls, ncalls, drv>>

\* os.remove of the three output files                      (lines 220-228)
PCleanup(p) ==
    /\ conc.proc[p].pc = "cleanup"
    /\ LET me    == conc.proc[p]
           names == {OutputFile(me.key, kind) : kind \in Kinds}
       IN  IF names \subseteq conc.disk
           THEN conc' = [conc EXCEPT
                   !.disk = @ \ names,
                   !.proc[p] = [me EXCEPT !.touched = @ \cup names,
                                          !.pc = "done"]]
           ELSE conc' = [conc EXCEPT
                   !.disk = @ \ names,
                   !.proc[p] = [Fail(p, "OSError") EXCEPT
                                          !.touched = @ \cup names]]
    /\ UNCHANGED <<dm, fs, outfiles, last, calls, ncalls, drv>>

ConcNext ==
    \E p \in Procs :
        \/ PStart(p)
        \/ PDirExists(p)
        \/ PMakedirs(p)
        \/ PCacheCheck(p)
        \/ PRun(p)
        \/ PRead(p)
        \/ PCleanup(p)

ConcSpec == Init /\ [][ConcNext]_vars

(***************************************************************************)
(* Properties.                                                             *)
(***************************************************************************)
FitOps == {"pca", "ica", "nmf"}

\* C1: after transform(how), the test matrix is normalised with the
\* parameters fitted on the training matrix, and no scaler is fitted on
\* the test matrix.
C1_TestNormalizedByTrainFit ==
    (last.op = "transform" /\ last.exc = "ok" /\ dm.test_df # NoneVal)
        => /\ dm.test_df.norm[Len(dm.test_df.norm)] = dm.transform_fit
           /\ ~dm.transform_test_fit.set

\* C2: the test embedding stored by pca, ica or nmf called with
\* transform_test_df=True is the forward map of the estimator fitted in
\* that call on the training matrix, applied to the normalised test matrix;
\* the estimator is not fitted on the test matrix.
C2_TestEmbeddingUsesTrainFit ==
    (/\ last.op \in FitOps
     /\ last.exc = "ok"
     /\ last.transform_test_df
     /\ ~last.transform_df)
        => LET m == dm[last.op]
           IN  /\ m.fit.on = dm.df
               /\ m.fit.on.name = "train"
               /\ m.df.fit = m.fit
               /\ m.test_df = Embedding(m.fit, dm.test_df, FALSE)

C2_Witness ==
    /\ last.op = "pca"
    /\ last.exc = "ok"
    /\ last.transform_test_df
    /\ ~last.transform_df
    /\ dm.pca.test_df.set
    /\ dm.test_df.norm # << >>

\* C3: the columns of plier_weights restrict the test matrix given to the
\* ridge projection, and the original matrix and the feature count given
\* to the reconstruction score of the plier variant, for both splits.
C3_SameGeneSubset ==
    /\ (last.op = "plier" /\ last.exc = "ok" /\ dm.plier.test_df.set)
          => dm.plier.test_df.X.genes = dm.plier.weights.columns
    /\ (last.op = "compile_reconstruction" /\ dm.plier.df.set)
          => /\ last.exc = "ok"
             /\ \E cell \in last.cells :
                   /\ cell.alg = "plier"
                   /\ cell.score.z.genes = dm.plier.weights.columns
                   /\ cell.score.p = Cardinality(dm.plier.weights.columns)

\* C4: no DataModel exists whose training and test matrices have
\* different gene sets.
C4_SameGenes ==
    (dm.set /\ dm.test_df # NoneVal) => dm.df.genes = dm.test_df.genes

C6_SeedsDistinct ==
    drv.pc \notin {"start", "init"}
        => \A i, j \in 1..Len(drv.random_seeds) :
              i # j => drv.random_seeds[i] # drv.random_seeds[j]

\* C7: a run with the same seed count as the first run (and the same
\* master seed, default_seed) draws the same seed sequence, whatever its
\* shuffle flag, algorithm and the state its process started in.
C7_SeedsDependOnMasterSeedAndCount ==
    (/\ drv.seen.set
     /\ drv.pc \notin {"start", "init"}
     /\ drv.args.num_seeds = drv.seen.num_seeds)
        => drv.random_seeds = drv.seen.random_seeds

C7_Witness ==
    /\ drv.seen.set
    /\ drv.rerun
    /\ drv.pc = "done"
    /\ drv.args.num_seeds = drv.seen.num_seeds
    /\ drv.args.num_seeds = MaxSeeds
    /\ drv.args.shuffle # drv.seen.shuffle

\* C8: the table of a completed run has exactly one row for every
\* requested algorithm, sampled seed, shuffled flag and split, and every
\* row holds a single score.
C8_OneRowPerKey ==
    drv.pc = "done"
        => LET rows == drv.recon_file.rows
           IN  /\ \A i \in 1..Len(rows) : Cardinality(rows[i].cells) = 1
               /\ \A alg \in drv.algs_to_run :
                  \A k \in 1..Len(drv.random_seeds) :
                  \A split \in {"training", "testing"} :
                     Cardinality(
                        {i \in 1..Len(rows) :
                            /\ rows[i].seed = drv.random_seeds[k]
                            /\ rows[i].shuffled = drv.args.shuffle
                            /\ rows[i].data_type = split
                            /\ \E c \in rows[i].cells : c.alg = alg}) = 1

\* C9: plier with skip_cache=False invokes the subprocess only when the
\* _z or the _b file of its key is absent; when the previous call with
\* that key was made with skip_cache=False on the same data and read its
\* outputs, the call reuses the stored files and yields the same weights,
\* embedding and regularisation value; plier with skip_cache=True always
\* invokes the subprocess.
C9_CacheReuse ==
    last.op = "plier"
        => /\ (~last.skip_cache /\ last.invoked)
                 => ~(last.before.z.set /\ last.before.b.set)
           /\ last.skip_cache => last.invoked
           /\ (/\ ~last.skip_cache
               /\ last.prev.set
               /\ ~last.prev.skip_cache
               /\ last.prev.read # NoFiles
               /\ last.prev.data = last.data)
                 => /\ ~last.invoked
                    /\ last.read = last.prev.read
                    /\ Files(fs, last.key) = last.prev.read

C9_Witness ==
    /\ last.op = "plier"
    /\ last.exc = "ok"
    /\ ~last.skip_cache
    /\ ~last.invoked
    /\ last.prev.set
    /\ ~last.prev.skip_cache
    /\ last.prev.invoked
    /\ last.prev.data = last.data
    /\ dm.plier.weights.from = last.prev.read.z

\* C10: when a plier call with skip_cache=True ends, no temporary
\* expression file and no output file that it caused to be written is
\* left on disk.
C10_NoSideEffectFiles ==
    (last.op = "plier" /\ last.skip_cache)
        => /\ fs.tmp = last.tmp
           /\ \A kind \in Kinds :
                 Files(fs, last.key)[kind].set => last.before[kind].set

\* the order of the statements of the script
StepOrder ==
    {<<"start", "init">>, <<"done", "init">>, <<"crashed", "init">>,
     <<"init", "loop">>, <<"loop", "pca">>, <<"pca", "ica">>,
     <<"ica", "nmf">>, <<"nmf", "plier">>, <<"plier", "write">>,
     <<"write", "compile">>, <<"compile", "loop">>,
     <<"loop", "aggregate">>, <<"aggregate", "done">>} \cup
    {<<p, "crashed">> : p \in {"init", "loop", "pca", "ica", "nmf", "plier",
                               "write", "compile", "aggregate"}}

InIteration == drv.pc \in {"pca", "ica", "nmf", "plier", "write", "compile"}

C11_StateOrder ==
    \* the rows gathered are those of the seeds before the current one, in
    \* sampled order
    /\ drv.pc \notin {"start", "init", "crashed"}
          => /\ drv.ix - 1 <= Len(drv.random_seeds)
             /\ Len(drv.reconstruction_results) = drv.ix - 1
             /\ Len(drv.test_reconstruction_results) = drv.ix - 1
             /\ \A i \in 1..(drv.ix - 1) :
                   /\ drv.reconstruction_results[i].seed = drv.random_seeds[i]
                   /\ drv.test_reconstruction_results[i].seed
                         = drv.random_seeds[i]
    \* the iteration works on the seed at the current position
    /\ InIteration => /\ drv.ix <= Len(drv.random_seeds)
                      /\ drv.seed = drv.random_seeds[drv.ix]
    \* the requested variants are fitted before anything is persisted
    /\ drv.pc \in {"write", "compile"}
          => \A alg \in drv.algs_to_run : dm[alg].df.set
    \* the embeddings of both splits and the weights are persisted before
    \* the scores are computed
    /\ drv.pc = "compile"
          => \A alg \in drv.algs_to_run :
             \A kind \in {"z", "z_test", "weight"} :
                [alg |-> alg,
                 suffix |-> Suffix(SeedName(drv.seed, drv.args.shuffle),
                                   kind)] \in outfiles
    \* the table is written only at the end, after every iteration
    /\ drv.recon_file.set <=> drv.pc = "done"
    /\ drv.pc \in {"aggregate", "done"}
          => drv.ix = Len(drv.random_seeds) + 1
    \* all training rows, then all testing rows, each in seed order
    /\ drv.pc = "done"
          => LET rows == drv.recon_file.rows
                 n    == Len(drv.random_seeds)
             IN  /\ Len(rows) = 2 * n
                 /\ \A i \in 1..n :
                       /\ rows[i].data_type = "training"
                       /\ rows[i].seed = drv.random_seeds[i]
                       /\ rows[n + i].data_type = "testing"
                       /\ rows[n + i].seed = drv.random_seeds[i]

C11_StepOrder ==
    /\ drv'.pc # drv.pc => <<drv.pc, drv'.pc>> \in StepOrder
    /\ drv'.recon_file # drv.recon_file
          => \/ drv.pc = "aggregate" /\ drv'.pc = "done"
             \/ drv'.pc = "init"
    /\ drv.pc \notin {"start", "init", "done", "crashed"} /\ drv'.pc # "init"
          => drv'.random_seeds = drv.random_seeds

\* C11: a run goes through init, the loop over the seeds, the aggregation
\* and done in that order; the seeds are processed one at a time in sampled
\* order; within an iteration the requested variants are fitted, then
\* persisted, then scored; the table is written once, after the last
\* iteration, with the training rows before the testing rows in seed
\* order; and a run in which nothing fails reaches done.
C11_RunOrder ==
    /\ []C11_StateOrder
    /\ [][C11_StepOrder]_vars
    /\ (drv.pc = "init" ~> (drv.pc = "done" \/ drv.exc # "ok"))

C11_Witness ==
    /\ drv.pc = "done"
    /\ drv.exc = "ok"
    /\ Len(drv.random_seeds) = MaxSeeds
    /\ Len(drv.recon_file.rows) = 2 * MaxSeeds
    /\ drv.random_seeds[1] # drv.random_seeds[2]

\* C12: when a seed iteration begins its fits, the DataModel holds no
\* model state of an earlier iteration: no estimator, embedding or weight
\* matrix of any algorithm is set.
C12_NoModelStateAcrossIterations ==
    drv.pc = "pca" => \A alg \in Algorithms : dm[alg] = NoModel

\* C13: two plier calls made at the same time with different keys use no
\* common output file, and neither fails on the creation of the shared
\* plier_output directory.
C13_NoCollision ==
    \A p, q \in Procs :
        (/\ p # q
         /\ conc.proc[p].pc # "idle"
         /\ conc.proc[q].pc # "idle"
         /\ conc.proc[p].key # conc.proc[q].key)
            => /\ conc.proc[p].touched \cap conc.proc[q].touched = {}
               /\ conc.proc[p].exc # "FileExistsError"

\* C14: when the subprocess of a plier call exits with a non-zero status,
\* the call raises CalledProcessError after that one invocation and leaves
\* plier_df, plier_weights and plier_test_df as they were.
C14_SubprocessFailure ==
    [][(/\ ncalls' = ncalls + 1
        /\ last'.op = "plier"
        /\ last'.invoked
        /\ ~last'.exit_ok)
          => /\ last'.exc = "CalledProcessError"
             /\ last'.read = NoFiles
             /\ dm'.plier.df = dm.plier.df
             /\ dm'.plier.weights = dm.plier.weights
             /\ dm'.plier.test_df = dm.plier.test_df]_vars

C14_Witness ==
    /\ last.op = "plier"
    /\ last.invoked
    /\ ~last.exit_ok
    /\ last.exc = "CalledProcessError"
    /\ last.prev.set
    /\ last.prev.exc = "ok"
    /\ dm.plier.df.set
    /\ dm.plier.test_df.set

\* C15: whenever <alg>_df is set on a DataModel, the <alg>_test_df,
\* <alg>_weights and <alg>_fit attributes that write_models,
\* write_weight_matrices and compile_reconstruction read for that
\* algorithm are set too.
C15_AttributesSetTogether ==
    dm.set => \A alg \in Algorithms :
                 dm[alg].df.set => /\ dm[alg].test_df.set
                                   /\ dm[alg].weights.set
                                   /\ dm[alg].fit.set

\* C16: whenever a plier call with skip_cache=False does not invoke the
\* subprocess, the _z, _b and _l2 files of its key all exist when it
\* reads them.
C16_CacheHitHasAllFiles ==
    (last.op = "plier" /\ ~last.skip_cache /\ ~last.invoked)
        => \A kind \in Kinds : last.before[kind].set

====
